---- MODULE Spec2Model ----
(***************************************************************************)
(* The credential relay of app.py: four Flask routes, one of which         *)
(* (/api/token) exchanges the server-held OPENAI_API_KEY for an ephemeral  *)
(* credential by one blocking requests.post to the upstream.               *)
(*                                                                         *)
(* A request occupies a slot r.  A handler that does not block runs in one *)
(* step; get_ephemeral_token blocks inside requests.post, so it is split   *)
(* at that call: the entry (up to issuing the call), the upstream's and    *)
(* the timer's events, and the completion (mapping what requests.post      *)
(* returned or raised to the caller's response).                           *)
(***************************************************************************)
EXTENDS Integers, Sequences, FiniteSets

\* ------------------------------------------------------------- bounds
\* Number of request slots (requests that may be in progress together).
NumReq == 2
\* Readings of the wall clock (datetime.now) run over 0..MaxNow.
MaxNow == 1
\* Granularity of the socket timer: one Tick lets TickStep time units pass.
TickStep == 15

\* ------------------------------------------------------------- constants
\* timeout=30 of requests.post
TIMEOUT == 30

Slots == 1..NumReq

\* os.getenv('OPENAI_API_KEY') after load_dotenv: unset (None), set to the
\* empty string, or set to a key.
None == "<None>"
EnvValues == {None, "", "sk-live"}

\* bool(v) of Python for a value of os.getenv.
Bool(v) == v \notin {None, ""}

\* ------------------------------------------------------------- JSON texts
\* A body text of the upstream: a JSON object written as its members in the
\* order they appear in the text, a JSON value that is not an object, or a
\* text that is not JSON.
NoText == [kind |-> "none", members |-> <<>>]
ObjectText(ms) == [kind |-> "object", members |-> ms]
ArrayText == [kind |-> "array", members |-> <<>>]
InvalidText == [kind |-> "invalid", members |-> <<>>]

\* All keys that occur in upstream bodies, in the order sort_keys gives.
SortedKeys == <<"expires_at", "value">>

UpstreamBodies ==
  { ObjectText(<< <<"expires_at", "X">>, <<"value", "Y">> >>),
    ObjectText(<< <<"value", "Z">>, <<"expires_at", "X">> >>),
    ObjectText(<< <<"value", "Y">>, <<"value", "Z">> >>),
    ObjectText(<< >>),
    ArrayText,
    InvalidText }

\* Statuses the upstream answers with.
UpstreamStatuses == {200, 201, 403}

KeysOf(ms) == { ms[i][1] : i \in 1..Len(ms) }
LastIndex(ms, k) == CHOOSE i \in 1..Len(ms) :
                      /\ ms[i][1] = k
                      /\ \A j \in (i+1)..Len(ms) : ms[j][1] # k

\* response.json(): the parsed value. A JSON object becomes a dict (a later
\* member replaces an earlier one of the same key); ok is FALSE when the text
\* is not JSON (the call raises); isdict is FALSE for any other JSON value.
json_loads(text) ==
  [ ok     |-> text.kind \in {"object", "array"},
    isdict |-> text.kind = "object",
    dict   |-> [k \in KeysOf(text.members) |->
                   text.members[LastIndex(text.members, k)][2]] ]

\* The members of a dict as jsonify writes them: sorted by key.
RECURSIVE DumpFrom(_, _)
DumpFrom(d, i) ==
  IF i > Len(SortedKeys) THEN <<>>
  ELSE LET k == SortedKeys[i] IN
       (IF k \in DOMAIN d THEN << <<k, d[k]>> >> ELSE <<>>) \o DumpFrom(d, i + 1)
json_dumps(d) == DumpFrom(d, 1)

\* ------------------------------------------------------------- responses
\* A response to the caller. keys is the set of top-level keys of its JSON
\* body; the fields below hold the values the claims speak of.
Body(kind, keys) ==
  [ kind |-> kind, keys |-> keys,
    error |-> <<"", "">>, details |-> NoText, status_code |-> 0,
    members |-> <<>>, timestamp |-> 0, api_key_configured |-> FALSE ]
Response(status, body) == [status |-> status, body |-> body]
NoResponse == Response(0, Body("none", {}))

\* jsonify({"error": msg}) with msg a fixed text followed by str(e).
ErrorBody(msg, arg) == [Body("json", {"error"}) EXCEPT !.error = <<msg, arg>>]

\* lines 62-65: return jsonify(data)
PassThrough(data) ==
  Response(200, [Body("json", DOMAIN data) EXCEPT !.members = json_dumps(data)])

\* lines 66-73: the upstream's status and text inside a 500.
RejectedAsIs(status, text) ==
  Response(status,
    [Body("json", {"error", "details", "status_code"}) EXCEPT
       !.error = <<"Failed to generate token", "">>,
       !.details = text, !.status_code = status])
Rejected(status, text) ==
  Response(500,
    [Body("json", {"error", "details", "status_code"}) EXCEPT
       !.error = <<"Failed to generate token", "">>,
       !.details = text, !.status_code = status])

\* ------------------------------------------------------------- exceptions
\* The classes an exception is an instance of (requests.exceptions and the
\* builtins), for the except clauses of lines 75-86.
Bases(exc) ==
  CASE exc = "ConnectTimeout" ->
         {"ConnectTimeout", "ConnectionError", "Timeout", "RequestException", "Exception"}
    [] exc = "ReadTimeout" ->
         {"ReadTimeout", "Timeout", "RequestException", "Exception"}
    [] exc = "ConnectionError" ->
         {"ConnectionError", "RequestException", "Exception"}
    [] exc = "ChunkedEncodingError" ->
         {"ChunkedEncodingError", "RequestException", "Exception"}
    [] exc = "JSONDecodeError" ->
         {"JSONDecodeError", "RequestException", "ValueError", "Exception"}
    [] exc = "ValueError" -> {"ValueError", "Exception"}
    [] exc = "AttributeError" -> {"AttributeError", "Exception"}
    [] OTHER -> {"Exception"}

\* What response.json() raises on a text that is not JSON: requests'
\* JSONDecodeError (a RequestException) or, in older releases, a ValueError.
JsonErrors == {"JSONDecodeError", "ValueError"}

\* The except clauses of get_ephemeral_token in their order.
ClausesConnectionFirst == <<"ConnectionError", "Timeout", "RequestException", "Exception">>
ExceptClauses == <<"Timeout", "ConnectionError", "RequestException", "Exception">>

\* The first clause that catches exc.
Caught(exc) ==
  ExceptClauses[CHOOSE i \in 1..Len(ExceptClauses) :
                  /\ ExceptClauses[i] \in Bases(exc)
                  /\ \A j \in 1..(i-1) : ExceptClauses[j] \notin Bases(exc)]

\* lines 75-86: the response of the clause that catches exc.
OnExceptionDefaultStatus(exc) ==
  LET c == Caught(exc) IN
  Response(200,
    CASE c = "Timeout" -> ErrorBody("Request timeout", "")
      [] c = "ConnectionError" -> ErrorBody("Connection error", "")
      [] c = "RequestException" -> ErrorBody("Request failed", exc)
      [] OTHER -> ErrorBody("Unexpected error", exc))
OnException(exc) ==
  LET c == Caught(exc) IN
  Response(500,
    CASE c = "Timeout" -> ErrorBody("Request timeout", "")
      [] c = "ConnectionError" -> ErrorBody("Connection error", "")
      [] c = "RequestException" -> ErrorBody("Request failed", exc)
      [] OTHER -> ErrorBody("Unexpected error", exc))

\* line 62: the test that selects the success branch.
AnySuccessStatus(status) == status \in 200..299
StatusOk(status) == status = 200

\* lines 59-73 inside the try: what the handler does with the response that
\* requests.post returned; jsonErr is what response.json() raises on a text
\* that is not JSON. data.get(...) of line 64 raises AttributeError when the
\* parsed value is not a dict.
OnReturn(status, text, jsonErr) ==
  IF StatusOk(status)
  THEN LET data == json_loads(text) IN
       IF ~data.ok THEN OnException(jsonErr)
       ELSE IF ~data.isdict THEN OnException("AttributeError")
       ELSE PassThrough(data.dict)
  ELSE Rejected(status, text)


\* ------------------------------------------------------------- state
VARIABLES
  OPENAI_API_KEY,  \* the module-level value read once at startup (line 17)
  json_error,      \* what response.json() (line 63) of the installed requests raises
  now,             \* the wall clock datetime.now() reads (lines 93, 104)
  pc,              \* per slot: "idle", "connecting", "reading" (inside line 49), "done"
  req,             \* per slot: the inbound request [method, path] (routes, lines 22-112)
  posts,           \* per slot: calls of requests.post made for the request (line 49)
  waited,          \* per slot: time the pending socket operation has waited (line 56)
  call,            \* per slot: what requests.post returned or raised (lines 49-83)
  resp             \* per slot: the response sent to the caller

vars == <<OPENAI_API_KEY, json_error, now, pc, req, posts, waited, call, resp>>

NoRequest == [method |-> "", path |-> ""]
NoCall == [status |-> 0, text |-> NoText, exc |-> ""]
Returned(status, text) == [status |-> status, text |-> text, exc |-> ""]
Raised(exc) == [status |-> 0, text |-> NoText, exc |-> exc]

Init ==
  /\ OPENAI_API_KEY \in EnvValues
  /\ json_error \in JsonErrors
  /\ now = 0
  /\ pc = [r \in Slots |-> "idle"]
  /\ req = [r \in Slots |-> NoRequest]
  /\ posts = [r \in Slots |-> 0]
  /\ waited = [r \in Slots |-> 0]
  /\ call = [r \in Slots |-> NoCall]
  /\ resp = [r \in Slots |-> NoResponse]

\* Slots are taken in order of arrival.
Free(r) == pc[r] = "idle" /\ (IF r = 1 THEN TRUE ELSE pc[r - 1] # "idle")
InFlight(r) == pc[r] \in {"connecting", "reading"}

\* The state after a handler has returned response for the request in slot r.
Sent(f, r, v) == [f EXCEPT ![r] = v]
Request(method, path) == [method |-> method, path |-> path]

\* ------------------------------------------------------------- static routes
HealthBodyNoneOnly(key, t) ==
  [Body("json", {"status", "timestamp", "service", "version", "api_key_configured"})
     EXCEPT !.timestamp = t, !.api_key_configured = (key # None)]
HealthBody(key, t) ==
  [Body("json", {"status", "timestamp", "service", "version", "api_key_configured"})
     EXCEPT !.timestamp = t, !.api_key_configured = Bool(key)]

health_check(r) ==
  /\ Free(r)
  /\ req' = Sent(req, r, Request("GET", "/api/health"))
  /\ resp' = Sent(resp, r, Response(200, HealthBody(OPENAI_API_KEY, now)))
  /\ pc' = Sent(pc, r, "done")
  /\ UNCHANGED <<OPENAI_API_KEY, json_error, now, posts, waited, call>>

test_endpoint(r) ==
  /\ Free(r)
  /\ req' = Sent(req, r, Request("GET", "/api/test"))
  /\ resp' = Sent(resp, r,
       Response(200, [Body("json", {"message", "timestamp", "endpoints"})
                        EXCEPT !.timestamp = now]))
  /\ pc' = Sent(pc, r, "done")
  /\ UNCHANGED <<OPENAI_API_KEY, json_error, now, posts, waited, call>>

index(r) ==
  /\ Free(r)
  /\ req' = Sent(req, r, Request("GET", "/"))
  /\ resp' = Sent(resp, r,
       Response(200, Body("json", {"service", "status", "endpoints", "cors", "deployment"})))
  /\ pc' = Sent(pc, r, "done")
  /\ UNCHANGED <<OPENAI_API_KEY, json_error, now, posts, waited, call>>

\* A path no route matches.
not_found(r) ==
  /\ Free(r)
  /\ req' = Sent(req, r, Request("GET", "/nope"))
  /\ resp' = Sent(resp, r,
       Response(404, [Body("json", {"error", "available_endpoints"})
                        EXCEPT !.error = <<"Endpoint not found", "">>]))
  /\ pc' = Sent(pc, r, "done")
  /\ UNCHANGED <<OPENAI_API_KEY, json_error, now, posts, waited, call>>

\* ------------------------------------------------------------- /api/token
\* lines 27-31: what get_ephemeral_token does before the try block.
EntryKeyFirst(method, key) ==
  IF ~Bool(key) THEN "nokey"
  ELSE IF method = "OPTIONS" THEN "options"
  ELSE "post"
EntryNoKeyCheck(method, key) ==
  IF method = "OPTIONS" THEN "options" ELSE "post"
Entry(method, key) ==
  IF method = "OPTIONS" THEN "options"
  ELSE IF ~Bool(key) THEN "nokey"
  ELSE "post"

\* lines 22-57: the handler up to the point where requests.post blocks.
get_ephemeral_token(r, method) ==
  /\ Free(r)
  /\ req' = Sent(req, r, Request(method, "/api/token"))
  /\ LET e == Entry(method, OPENAI_API_KEY) IN
     IF e = "post"
     THEN /\ posts' = [posts EXCEPT ![r] = @ + 1]
          /\ pc' = Sent(pc, r, "connecting")
          /\ UNCHANGED resp
     ELSE /\ resp' = Sent(resp, r,
               IF e = "options" THEN Response(200, Body("empty", {}))
               ELSE Response(500, ErrorBody("OPENAI_API_KEY not configured", "")))
          /\ pc' = Sent(pc, r, "done")
          /\ UNCHANGED posts
  /\ UNCHANGED <<OPENAI_API_KEY, json_error, now, waited, call>>

\* requests.post has finished for slot r with outcome c; the rest of the
\* handler (lines 59-86) runs and the response goes to the caller.
CompleteWithRetry(r, c) ==
  IF c.exc # "" /\ posts[r] < 2
  THEN /\ posts' = [posts EXCEPT ![r] = @ + 1]
       /\ pc' = [pc EXCEPT ![r] = "connecting"]
       /\ waited' = [waited EXCEPT ![r] = 0]
       /\ UNCHANGED <<OPENAI_API_KEY, json_error, now, req, call, resp>>
  ELSE /\ call' = [call EXCEPT ![r] = c]
       /\ resp' = [resp EXCEPT ![r] =
                     IF c.exc = "" THEN OnReturn(c.status, c.text, json_error)
                     ELSE OnException(c.exc)]
       /\ pc' = [pc EXCEPT ![r] = "done"]
       /\ waited' = [waited EXCEPT ![r] = 0]
       /\ UNCHANGED <<OPENAI_API_KEY, json_error, now, req, posts>>
CompleteCached(r, c) ==
  /\ call' = [call EXCEPT ![r] = c]
  /\ resp' = [resp EXCEPT ![r] =
                IF \E q \in Slots : pc[q] = "done" /\ posts[q] = 1 /\ resp[q].status = 200
                THEN resp[CHOOSE q \in Slots :
                            pc[q] = "done" /\ posts[q] = 1 /\ resp[q].status = 200]
                ELSE IF c.exc = "" THEN OnReturn(c.status, c.text, json_error)
                ELSE OnException(c.exc)]
  /\ pc' = [pc EXCEPT ![r] = "done"]
  /\ waited' = [waited EXCEPT ![r] = 0]
  /\ UNCHANGED <<OPENAI_API_KEY, json_error, now, req, posts>>
Complete(r, c) ==
  /\ call' = [call EXCEPT ![r] = c]
  /\ resp' = [resp EXCEPT ![r] =
                IF c.exc = "" THEN OnReturn(c.status, c.text, json_error)
                ELSE OnException(c.exc)]
  /\ pc' = [pc EXCEPT ![r] = "done"]
  /\ waited' = [waited EXCEPT ![r] = 0]
  /\ UNCHANGED <<OPENAI_API_KEY, json_error, now, req, posts>>

\* The upstream accepts the connection; the wait for its reply starts.
UpstreamAccepts(r) ==
  /\ pc[r] = "connecting" /\ waited[r] < TIMEOUT
  /\ pc' = [pc EXCEPT ![r] = "reading"]
  /\ waited' = [waited EXCEPT ![r] = 0]
  /\ UNCHANGED <<OPENAI_API_KEY, json_error, now, req, posts, call, resp>>

\* The upstream cannot be reached.
ConnectFails(r) ==
  /\ pc[r] = "connecting" /\ waited[r] < TIMEOUT
  /\ Complete(r, Raised("ConnectionError"))

\* timeout=30 expires while connecting.
ConnectTimesOut(r) ==
  /\ pc[r] = "connecting" /\ waited[r] >= TIMEOUT
  /\ Complete(r, Raised("ConnectTimeout"))

\* The upstream answers with a status and a body text.
UpstreamReplies(r, status, text) ==
  /\ pc[r] = "reading" /\ waited[r] < TIMEOUT
  /\ Complete(r, Returned(status, text))

\* The connection breaks, or the reply breaks the transport some other way.
ReadFails(r, exc) ==
  /\ pc[r] = "reading" /\ waited[r] < TIMEOUT
  /\ Complete(r, Raised(exc))

\* timeout=30 expires while waiting for the reply.
ReadTimesOut(r) ==
  /\ pc[r] = "reading" /\ waited[r] >= TIMEOUT
  /\ Complete(r, Raised("ReadTimeout"))

\* Time passes for every pending socket operation; none waits past its bound.
Tick ==
  /\ \E r \in Slots : InFlight(r)
  /\ \A r \in Slots : InFlight(r) => waited[r] < TIMEOUT
  /\ waited' = [r \in Slots |-> IF InFlight(r) THEN waited[r] + TickStep ELSE waited[r]]
  /\ UNCHANGED <<OPENAI_API_KEY, json_error, now, pc, req, posts, call, resp>>

\* The wall clock advances.
ClockAdvance ==
  /\ now < MaxNow
  /\ now' = now + 1
  /\ UNCHANGED <<OPENAI_API_KEY, json_error, pc, req, posts, waited, call, resp>>

Next ==
  \/ \E r \in Slots : health_check(r)
  \/ \E r \in Slots : test_endpoint(r)
  \/ \E r \in Slots : index(r)
  \/ \E r \in Slots : not_found(r)
  \/ \E r \in Slots, m \in {"GET", "OPTIONS"} : get_ephemeral_token(r, m)
  \/ \E r \in Slots : UpstreamAccepts(r)
  \/ \E r \in Slots : ConnectFails(r)
  \/ \E r \in Slots : ConnectTimesOut(r)
  \/ \E r \in Slots, s \in UpstreamStatuses, t \in UpstreamBodies : UpstreamReplies(r, s, t)
  \/ \E r \in Slots, e \in {"ConnectionError", "ChunkedEncodingError"} : ReadFails(r, e)
  \/ \E r \in Slots : ReadTimesOut(r)
  \/ Tick
  \/ ClockAdvance

Spec == Init /\ [][Next]_vars

\* The scheduling the code relies on: time passes, a socket operation whose
\* bound has expired raises, and a handler that can run does run. Nothing is
\* assumed of the upstream or of the callers.
Fairness ==
  /\ WF_vars(Tick)
  /\ \A r \in Slots : WF_vars(ConnectTimesOut(r)) /\ WF_vars(ReadTimesOut(r))

LiveSpec == Init /\ [][Next]_vars /\ Fairness

\* ------------------------------------------------------------- vocabulary
Done(r) == pc[r] = "done"
TokenGet(r) == req[r] = Request("GET", "/api/token")
TokenOptions(r) == req[r] = Request("OPTIONS", "/api/token")
Configured == Bool(OPENAI_API_KEY)
Replied(r) == Done(r) /\ posts[r] > 0 /\ call[r].exc = ""
Threw(r) == Done(r) /\ posts[r] > 0 /\ call[r].exc # ""
IsObject(text) == text.kind = "object"
IsJson(text) == text.kind \in {"object", "array"}
ErrorJson(response) == response.body.kind = "json" /\ "error" \in response.body.keys

\* The caller reads the body it received as JSON; the body carries exactly the
\* keys and values of the upstream's text.
SameJson(response, text) ==
  /\ response.body.kind = "json"
  /\ IsObject(text)
  /\ response.body.keys = KeysOf(text.members)
  /\ json_loads(ObjectText(response.body.members)).dict = json_loads(text).dict

RECURSIVE SumPosts(_)
SumPosts(S) == IF S = {} THEN 0
               ELSE LET r == CHOOSE x \in S : TRUE IN posts[r] + SumPosts(S \ {r})
UpstreamCallCount == SumPosts(Slots)

TypeOK ==
  /\ OPENAI_API_KEY \in EnvValues
  /\ json_error \in JsonErrors
  /\ now \in 0..MaxNow
  /\ \A r \in Slots :
       /\ pc[r] \in {"idle", "connecting", "reading", "done"}
       /\ posts[r] \in 0..1
       /\ waited[r] \in 0..(TIMEOUT + TickStep)

\* ------------------------------------------------------------- claims

\* C1: with the secret not configured, every GET /api/token is answered 500
\* with an `error` field, no call to the upstream is made for it, and the
\* upstream's call count stays at zero.
C1_NoSecretFailsWithoutCall ==
  ~Configured =>
    /\ UpstreamCallCount = 0
    /\ \A r \in Slots : TokenGet(r) =>
         /\ Done(r) /\ posts[r] = 0
         /\ resp[r].status = 500 /\ ErrorJson(resp[r])
C1_Witness ==
  /\ OPENAI_API_KEY = ""
  /\ \A r \in Slots : Done(r) /\ TokenGet(r)

\* C2 as stated: a 200 reply of the upstream with any JSON body B comes back
\* as 200 with exactly B.
C2_Every200JsonBodyPassesThrough ==
  \A r \in Slots :
    (TokenGet(r) /\ Replied(r) /\ call[r].status = 200 /\ IsJson(call[r].text))
      => (resp[r].status = 200 /\ SameJson(resp[r], call[r].text))

\* C3 as stated: any success status of the upstream, not only 200, passes the
\* JSON body through with a success status.
C3_AnySuccessStatusPassesThrough ==
  \A r \in Slots :
    (TokenGet(r) /\ Replied(r) /\ call[r].status \in 200..299 /\ IsObject(call[r].text))
      => (resp[r].status \in 200..299 /\ SameJson(resp[r], call[r].text))

\* C3 amended: status 200 alone is the success status. A 200 reply with a JSON
\* object body comes back unchanged with status 200 and is never reported as
\* rejected; every other status, 201 included, is reported as rejected.
C3_Only200PassesThrough ==
  \A r \in Slots : (TokenGet(r) /\ Replied(r)) =>
    /\ (call[r].status = 200 /\ IsObject(call[r].text))
         => (resp[r].status = 200 /\ SameJson(resp[r], call[r].text))
    /\ call[r].status = 200 => "status_code" \notin resp[r].body.keys
    /\ call[r].status # 200 =>
         /\ resp[r].status = 500
         /\ resp[r].body.error = <<"Failed to generate token", "">>
         /\ resp[r].body.status_code = call[r].status
C3_Witness ==
  /\ \E r \in Slots : TokenGet(r) /\ Replied(r) /\ call[r].status = 201
                      /\ IsObject(call[r].text) /\ resp[r].status = 500
  /\ \E r \in Slots : TokenGet(r) /\ Replied(r) /\ call[r].status = 200
                      /\ Len(call[r].text.members) = 2 /\ resp[r].status = 200

C5_TimeoutAnswer ==
  \A r \in Slots :
    /\ InFlight(r) => waited[r] < TIMEOUT + TickStep
    /\ (Threw(r) /\ call[r].exc \in {"ConnectTimeout", "ReadTimeout"})
         => resp[r] = Response(500, ErrorBody("Request timeout", ""))
C5_BoundedWait ==
  /\ []C5_TimeoutAnswer
  /\ \A r \in Slots : InFlight(r) ~> Done(r)
C5_Witness ==
  /\ \E r \in Slots : Threw(r) /\ call[r].exc = "ConnectTimeout"
  /\ \E r \in Slots : Threw(r) /\ call[r].exc = "ReadTimeout"

\* C6: a response to GET /api/token is 200, or 500 with an `error` field; any
\* fault (no secret, rejection, timeout, unreachable upstream, transport
\* fault, exception inside the handler) gives the latter.
Fault(r) ==
  \/ ~Configured
  \/ Threw(r)
  \/ Replied(r) /\ call[r].status # 200
  \/ Replied(r) /\ call[r].status = 200 /\ ~IsObject(call[r].text)
C6_FaultsAre500WithError ==
  \A r \in Slots : (Done(r) /\ TokenGet(r)) =>
    /\ resp[r] # NoResponse
    /\ resp[r].status = 200 \/ (resp[r].status = 500 /\ ErrorJson(resp[r]))
    /\ Fault(r) => (resp[r].status = 500 /\ ErrorJson(resp[r]))
C6_Witness ==
  /\ \E r \in Slots : TokenGet(r) /\ Replied(r) /\ call[r].status = 200
                      /\ call[r].text = InvalidText
  /\ \E r \in Slots : TokenGet(r) /\ Threw(r) /\ call[r].exc = "ChunkedEncodingError"

\* C7: OPTIONS /api/token is answered 200 with an empty body and without a
\* call to the upstream, with or without the secret.
C7_OptionsEmpty200 ==
  \A r \in Slots : TokenOptions(r) =>
    /\ Done(r) /\ posts[r] = 0
    /\ resp[r] = Response(200, Body("empty", {}))
C7_Witness ==
  /\ ~Configured
  /\ \E r \in Slots : TokenOptions(r) /\ Done(r)

\* C8: /api/health answers 200 with its five keys and api_key_configured
\* equal to whether the secret is configured; / and /api/test answer 200;
\* whatever /api/token did before.
C8_OtherRoutesKeepWorking ==
  \A r \in Slots : Done(r) =>
    /\ req[r] = Request("GET", "/api/health") =>
         /\ resp[r].status = 200
         /\ resp[r].body.kind = "json"
         /\ resp[r].body.keys =
              {"status", "timestamp", "service", "version", "api_key_configured"}
         /\ resp[r].body.api_key_configured = Configured
    /\ req[r] \in {Request("GET", "/"), Request("GET", "/api/test")} =>
         resp[r].status = 200 /\ resp[r].body.kind = "json"
C8_Witness ==
  /\ OPENAI_API_KEY = ""
  /\ Done(1) /\ TokenGet(1) /\ resp[1].status = 500
  /\ \E r \in Slots : r > 1 /\ Done(r) /\ req[r] = Request("GET", "/api/health")

\* C9: a GET /api/token makes one call to the upstream when the secret is
\* configured and none otherwise, also after a fault; no other request makes
\* any; so the calls never outnumber the GET /api/token requests received
\* with the secret configured.
C9_OneCallPerRequest ==
  /\ \A r \in Slots :
       posts[r] = IF pc[r] # "idle" /\ TokenGet(r) /\ Configured THEN 1 ELSE 0
  /\ UpstreamCallCount <=
       Cardinality({r \in Slots : pc[r] # "idle" /\ TokenGet(r) /\ Configured})
C9_Witness ==
  /\ \E r \in Slots : Threw(r) /\ call[r].exc = "ConnectionError" /\ posts[r] = 1
  /\ \E r \in Slots : Threw(r) /\ call[r].exc = "ReadTimeout" /\ posts[r] = 1

\* C10 as stated: the response is determined by the request's method and
\* path, the configured secret and the outcome of its own upstream call.
C10_ResponseDetermined ==
  \A r, q \in Slots :
    (Done(r) /\ Done(q) /\ req[r] = req[q] /\ call[r] = call[q]) => resp[r] = resp[q]

\* C10 amended: the response is determined by the request's method and path,
\* the configured secret, the outcome of its own upstream call and, in the
\* `timestamp` of /api/health and /api/test, the clock. A credential in a
\* response is the one the upstream returned to that request's own call; no
\* step changes the secret or a response already sent.
Timeless(response) == [response EXCEPT !.body.timestamp = 0]
C10_Independent ==
  /\ \A r, q \in Slots :
       (Done(r) /\ Done(q) /\ req[r] = req[q] /\ call[r] = call[q])
         => Timeless(resp[r]) = Timeless(resp[q])
  /\ \A r \in Slots :
       (Done(r) /\ TokenGet(r) /\ resp[r].status = 200)
         => (Replied(r) /\ SameJson(resp[r], call[r].text))
C10_NoSharedState ==
  /\ OPENAI_API_KEY' = OPENAI_API_KEY
  /\ \A r \in Slots : Done(r) => (resp'[r] = resp[r] /\ call'[r] = call[r] /\ Done(r)')
C10_Stateless ==
  /\ []C10_Independent
  /\ [][C10_NoSharedState]_vars
C10_Witness ==
  \E r, q \in Slots :
    /\ r # q /\ TokenGet(r) /\ TokenGet(q) /\ Replied(r) /\ Replied(q)
    /\ resp[r].status = 200 /\ resp[q].status = 200
    /\ resp[r].body.members # resp[q].body.members

====
